---- MODULE Spec2Model ----
(***************************************************************************)
(* Model of the icon code generator (build.rs): manifest loading, manifest *)
(* directory discovery, asset resolution, grouping, constant naming, code  *)
(* emission, and the dispatch semantics of the code it emits.              *)
(*                                                                         *)
(* Strings the code concatenates or uppercases are sequences of            *)
(* one-character strings, so that two names are equal exactly when their   *)
(* characters are.  A path is a sequence of components.                    *)
(***************************************************************************)
EXTENDS Naturals, Sequences, FiniteSets

\* ------------------------------------------------------------------ bounds
\* Longest manifest (number of entries of icons.json) the model enumerates.
MaxEntries == 2
\* Deepest build output directory (components below the filesystem root).
MaxDepth == 2

\* ------------------------------------------------------------ string data
S_icons == <<"i","c","o","n","s">>
S_svg == <<".","s","v","g">>
S_filled_dash == <<"f","i","l","l","e","d","-">>
S_FILLED_ == <<"F","I","L","L","E","D","_">>
S_ICON_ == <<"I","C","O","N","_">>
S_icon == <<"i","c","o","n">>
S_icon_ == <<"i","c","o","n","_">>
S_IconStyle == <<"I","c","o","n","S","t","y","l","e">>
S_crate == <<"c","r","a","t","e">>

\* The icon names the manifests of the model are drawn from: a plain name,
\* the same name in another case, and a name that ends in "_filled".
N_a == <<"a">>
N_A == <<"A">>
N_a_filled == <<"a","_","f","i","l","l","e","d">>
Names == {N_a, N_A, N_a_filled}

\* enum IconStyle
Styles == {"Outlined", "Rounded", "Sharp"}

\* #[default] Outlined
DefaultStyle == "Outlined"

\* str::to_uppercase, one character at a time, on the characters used here.
UpperChar(c) ==
    CASE c = "a" -> "A"
      [] c = "b" -> "B"
      [] c = "d" -> "D"
      [] c = "e" -> "E"
      [] c = "f" -> "F"
      [] c = "i" -> "I"
      [] c = "l" -> "L"
      [] OTHER -> c

to_uppercase(s) == [i \in 1..Len(s) |-> UpperChar(s[i])]

\* The file-name tag of a style (build.rs match icon.style).
StyleFileName(style) ==
    CASE style = "Outlined" -> <<"o","u","t","l","i","n","e","d">>
      [] style = "Rounded" -> <<"r","o","u","n","d","e","d">>
      [] style = "Sharp" -> <<"s","h","a","r","p">>

\* The constant-name tag of a style (build.rs match info.style).
StyleConstName(style) ==
    CASE style = "Outlined" -> <<"O","U","T","L","I","N","E","D">>
      [] style = "Rounded" -> <<"R","O","U","N","D","E","D">>
      [] style = "Sharp" -> <<"S","H","A","R","P">>

\* ------------------------------------------------------------- manifest
\* One element of the JSON array: a bare string (Icon::Simple) or an object
\* (Icon::Configured); a field the object leaves out is "absent".
JsonSimple(n) == [bare |-> TRUE, name |-> n, style |-> "absent", filled |-> "absent"]
JsonConfigured(n, s, f) == [bare |-> FALSE, name |-> n, style |-> s, filled |-> f]

JsonEntries ==
    {JsonSimple(n) : n \in Names}
    \cup {JsonConfigured(n, s, f) : n \in Names, s \in Styles, f \in {"true", "false"}}

\* impl From<Icon> for IconInfo, with the serde defaults of IconInfo.
IconInfoFrom(j) ==
    [name |-> j.name,
     style |-> IF j.style = "absent" THEN DefaultStyle ELSE j.style,
     filled |-> (j.filled = "true")]

\* FileName with the prefix test inverted.
FileNameInverted(icon) ==
    (IF icon.filled THEN << >> ELSE S_filled_dash) \o StyleFileName(icon.style) \o S_svg

\* The file name of an entry: format!("{}{}.svg", filled-prefix, style).
FileName(icon) ==
    (IF icon.filled THEN S_filled_dash ELSE << >>) \o StyleFileName(icon.style) \o S_svg

\* PathBuf::from(SHIPPED_ICONS_PATH).join(&icon.name).join(file_name)
AssetPath(icon) == <<S_icons, icon.name, FileName(icon)>>

\* path.canonicalize(): the absolute path, the build script running in the
\* crate directory.
Canonicalize(path) == <<S_crate>> \o path

\* ConstName without the FILLED_ part.
ConstNameNoFilled(name, info) ==
    S_ICON_ \o to_uppercase(name) \o <<"_">> \o StyleConstName(info.style)

\* The constant name of a resolved asset.
ConstName(name, info) ==
    S_ICON_ \o to_uppercase(name) \o <<"_">>
        \o (IF info.filled THEN S_FILLED_ ELSE << >>)
        \o StyleConstName(info.style)

\* format!("icon_{name}")
FnName(name) == S_icon_ \o name

\* -------------------------------------------------------- emitted source
\* The emitted source text, as the sequence of items the Scope holds in the
\* order they were pushed.  Every item has the same fields; the ones its kind
\* does not use are empty.
EnumItem ==
    [kind |-> "enum", name |-> S_IconStyle, path |-> << >>,
     variants |-> <<"Outlined", "Rounded", "Sharp">>, arms |-> << >>]

\* const <const_name>: &[u8] = include_bytes!("<canonical path>");
ConstItem(const_name, path) ==
    [kind |-> "const", name |-> const_name, path |-> Canonicalize(path),
     variants |-> << >>, arms |-> << >>]

\* A function whose body is one match over `arms`, ending in a panic arm.
FnItem(fn_name, arms) ==
    [kind |-> "fn", name |-> fn_name, path |-> << >>,
     variants |-> << >>, arms |-> arms]

\* MatchVariant with a pattern that ignores the filled flag of the variant.
MatchVariantNoFilled(name, info) ==
    [style |-> info.style, filled |-> FALSE, target |-> ConstName(name, info)]

\* "(IconStyle::{:?}, {}) => {const_name},"
MatchVariant(name, info) ==
    [style |-> info.style, filled |-> info.filled, target |-> ConstName(name, info)]

\* "{name:?} => icon_{name}(style, filled),"
NameVariant(name) == [pat |-> name, target |-> FnName(name)]

\* A file that does not exist (a written file holds at least two items).
Absent == << >>

\* ------------------------------------------------------------------ state
VARIABLES
    docsrs,         \* cfg!(docsrs)
    sourceDirSet,   \* whether the environment sets SOURCE_DIR
    outDir,         \* the canonical OUT_DIR
    cargoDirs,      \* the directories that hold a Cargo.toml
    manifestDirs,   \* the directories that hold an icons.json
    manifest,       \* the content of icons.json: [ok, entries]
    assets,         \* the asset files that exist, relative to the crate
    outFile,        \* the content of OUT_DIR/icons.rs
    pc,             \* the position of the run in main
    manifest_dir,   \* main: manifest_dir
    config,         \* main: config
    config_dir,     \* main: config_dir
    idx,            \* position of `for icon in config`
    icons,          \* main: icons, the HashMap from name to variants
    visited,        \* the keys `for (name, variants) in icons` has yielded
    root,           \* main: root, the Scope
    name_variants,  \* main: name_variants
    err,            \* the panic that ended the run
    writes          \* how often this run has written the output file

env == <<docsrs, sourceDirSet, outDir, cargoDirs, manifestDirs, manifest, assets>>
locals == <<manifest_dir, config, config_dir, idx, icons, visited, root,
            name_variants, err, writes>>
vars == <<env, outFile, pc, locals>>

\* ------------------------------------------------------------ environment
DirChain == <<"proj", "target", "debug", "build", "out">>
OutChain(d) == SubSeq(DirChain, 1, d)
\* The value of SOURCE_DIR when it is set.
SourceDir == <<"docs_src">>
\* config_dir of a documentation build without SOURCE_DIR: "".
NoDir == <<"">>

\* A directory and the directories above it, the filesystem root (<< >>)
\* included.
Ancestors(dir) == {SubSeq(dir, 1, n) : n \in 0..Len(dir)}

SeqsUpTo(S, n) == UNION {[1..k -> S] : k \in 0..n}

\* The request a manifest element declares: style Outlined and not filled
\* unless the element says otherwise.
Declared(j) ==
    [name |-> j.name,
     style |-> IF j.style \in Styles THEN j.style ELSE "Outlined",
     filled |-> IF j.filled = "true" THEN TRUE ELSE FALSE]

\* The asset layout on disk: icons/<name>/<'filled-' if filled><style>.svg
ExpectedPath(d) ==
    <<S_icons, d.name,
      (IF d.filled THEN <<"f","i","l","l","e","d","-">> ELSE << >>)
      \o (IF d.style = "Outlined" THEN <<"o","u","t","l","i","n","e","d">>
          ELSE IF d.style = "Rounded" THEN <<"r","o","u","n","d","e","d">>
          ELSE <<"s","h","a","r","p">>)
      \o <<".","s","v","g">> >>

AllIcons == [name : Names, style : Styles, filled : BOOLEAN]
\* The asset files of the icons directory when none is missing.
AllAssetPaths == {ExpectedPath(i) : i \in AllIcons}

NoErr == [kind |-> "none", name |-> << >>, path |-> << >>]
EmptyMap == [k \in {} |-> << >>]

FreshLocals ==
    /\ manifest_dir = << >>
    /\ config = << >>
    /\ config_dir = NoDir
    /\ idx = 1
    /\ icons = EmptyMap
    /\ visited = {}
    /\ root = << >>
    /\ name_variants = << >>
    /\ err = NoErr
    /\ writes = 0

\* An ordinary build below a project directory that holds Cargo.toml and
\* icons.json; every manifest of up to MaxEntries entries, with all assets
\* present or one of the assets it names missing.
InitManifests ==
    /\ docsrs = FALSE
    /\ sourceDirSet = FALSE
    /\ outDir = OutChain(MaxDepth)
    /\ cargoDirs = {OutChain(1)}
    /\ manifestDirs = {OutChain(1)}
    /\ \E es \in SeqsUpTo(JsonEntries, MaxEntries) :
          /\ manifest = [ok |-> TRUE, entries |-> es]
          /\ \E missing \in {{}} \cup {{ExpectedPath(Declared(es[i]))} : i \in 1..Len(es)} :
                assets = AllAssetPaths \ missing

EnvManifests ==
    {[ok |-> FALSE, entries |-> << >>],
     [ok |-> TRUE, entries |-> << >>],
     [ok |-> TRUE, entries |-> <<JsonSimple(N_a)>>],
     [ok |-> TRUE, entries |-> <<JsonSimple(N_a), JsonConfigured(N_A, "Sharp", "true")>>]}

\* Every build configuration and directory layout up to MaxDepth, with a few
\* manifests.
InitEnv ==
    /\ docsrs \in BOOLEAN
    /\ sourceDirSet \in BOOLEAN
    /\ outDir \in {OutChain(d) : d \in 0..MaxDepth}
    /\ cargoDirs \in SUBSET Ancestors(outDir)
    /\ manifestDirs \in SUBSET (cargoDirs \cup {SourceDir})
    /\ manifest \in EnvManifests
    /\ assets \in {AllAssetPaths, AllAssetPaths \ {ExpectedPath(Declared(JsonSimple(N_a)))}}

Init ==
    /\ InitManifests \/ InitEnv
    /\ outFile = Absent
    /\ pc = "start"
    /\ FreshLocals

\* ---------------------------------------------------------------- loading
\* load_icons(dir): an io::Error when the file cannot be read, a panic when
\* it does not parse, the converted entries otherwise.
load_icons(dir) ==
    IF dir \notin manifestDirs THEN [tag |-> "Err", icons |-> << >>]
    ELSE IF ~manifest.ok THEN [tag |-> "ParsePanic", icons |-> << >>]
    ELSE [tag |-> "Ok",
          icons |-> [i \in 1..Len(manifest.entries) |-> IconInfoFrom(manifest.entries[i])]]

Panic(kind, name, path) ==
    /\ pc' = "panic"
    /\ err' = [kind |-> kind, name |-> name, path |-> path]

\* main, up to the cfg!(docsrs) branch.
Start ==
    /\ pc = "start"
    /\ manifest_dir' = outDir
    /\ pc' = IF docsrs THEN "docs" ELSE "discover"
    /\ UNCHANGED <<env, outFile, config, config_dir, idx, icons, visited, root,
                   name_variants, err, writes>>

\* docsrs, SOURCE_DIR set: load_icons(&source_dir).unwrap_or_default()
DocsLoadSource ==
    /\ pc = "docs"
    /\ sourceDirSet
    /\ LET r == load_icons(SourceDir) IN
          IF r.tag = "ParsePanic"
          THEN /\ Panic("ManifestParseError", << >>, << >>)
               /\ UNCHANGED <<config, config_dir>>
          ELSE /\ config' = r.icons
               /\ config_dir' = SourceDir
               /\ pc' = "resolve"
               /\ UNCHANGED err
    /\ UNCHANGED <<env, outFile, manifest_dir, idx, icons, visited, root,
                   name_variants, writes>>

\* docsrs, SOURCE_DIR not set: (Vec::new(), "".into())
DocsNoSource ==
    /\ pc = "docs"
    /\ ~sourceDirSet
    /\ config' = << >>
    /\ config_dir' = NoDir
    /\ pc' = "resolve"
    /\ UNCHANGED <<env, outFile, manifest_dir, idx, icons, visited, root,
                   name_variants, err, writes>>

\* DiscoverPop with a pop() that leaves the path as it is.
DiscoverPopStuck ==
    /\ pc = "discover"
    /\ manifest_dir \notin cargoDirs
    /\ Len(manifest_dir) > 0
    /\ UNCHANGED vars

\* One turn of the while loop: no Cargo.toml here, and pop() moves up.
DiscoverPop ==
    /\ pc = "discover"
    /\ manifest_dir \notin cargoDirs
    /\ Len(manifest_dir) > 0
    /\ manifest_dir' = SubSeq(manifest_dir, 1, Len(manifest_dir) - 1)
    /\ UNCHANGED <<env, outFile, pc, config, config_dir, idx, icons, visited, root,
                   name_variants, err, writes>>

\* No Cargo.toml at the root, where pop() returns false.
DiscoverFail ==
    /\ pc = "discover"
    /\ manifest_dir \notin cargoDirs
    /\ Len(manifest_dir) = 0
    /\ Panic("NoManifestDir", << >>, << >>)
    /\ UNCHANGED <<env, outFile, manifest_dir, config, config_dir, idx, icons, visited,
                   root, name_variants, writes>>

\* The loop ends at a directory that holds Cargo.toml.
DiscoverFound ==
    /\ pc = "discover"
    /\ manifest_dir \in cargoDirs
    /\ config_dir' = manifest_dir
    /\ pc' = "load"
    /\ UNCHANGED <<env, outFile, manifest_dir, config, idx, icons, visited, root,
                   name_variants, err, writes>>

\* LoadConfig with unwrap_or_default() in place of expect(..).
LoadConfigLenient ==
    /\ pc = "load"
    /\ LET r == load_icons(config_dir) IN
          IF r.tag = "ParsePanic"
          THEN /\ Panic("ManifestParseError", << >>, << >>)
               /\ UNCHANGED config
          ELSE /\ config' = r.icons
               /\ pc' = "resolve"
               /\ UNCHANGED err
    /\ UNCHANGED <<env, outFile, manifest_dir, config_dir, idx, icons, visited, root,
                   name_variants, writes>>

\* load_icons(&config_dir).expect(..)
LoadConfig ==
    /\ pc = "load"
    /\ LET r == load_icons(config_dir) IN
          IF r.tag = "Ok"
          THEN /\ config' = r.icons
               /\ pc' = "resolve"
               /\ UNCHANGED err
          ELSE /\ Panic(IF r.tag = "Err" THEN "ManifestNotFound" ELSE "ManifestParseError",
                        << >>, << >>)
               /\ UNCHANGED config
    /\ UNCHANGED <<env, outFile, manifest_dir, config_dir, idx, icons, visited, root,
                   name_variants, writes>>

\* -------------------------------------------------------------- resolving
\* One turn of `for icon in config`, the asset exists: the entry joins the
\* list of its name (Entry::Occupied pushes, Entry::Vacant inserts).
ResolveStep ==
    /\ pc = "resolve"
    /\ idx <= Len(config)
    /\ LET icon == config[idx]
           path == AssetPath(icon)
       IN /\ path \in assets
          /\ icons' = [k \in DOMAIN icons \cup {icon.name} |->
                          IF k = icon.name
                          THEN (IF k \in DOMAIN icons THEN icons[k] ELSE << >>)
                                   \o <<[info |-> icon, path |-> path]>>
                          ELSE icons[k]]
    /\ idx' = idx + 1
    /\ UNCHANGED <<env, outFile, pc, manifest_dir, config, config_dir, visited, root,
                   name_variants, err, writes>>

\* One turn of `for icon in config`, the asset does not exist:
\* panic!("Icon {} not found at {}", icon.name, path.display())
ResolveFail ==
    /\ pc = "resolve"
    /\ idx <= Len(config)
    /\ LET icon == config[idx]
           path == AssetPath(icon)
       IN /\ path \notin assets
          /\ Panic("AssetNotFound", icon.name, path)
    /\ UNCHANGED <<env, outFile, manifest_dir, config, config_dir, idx, icons, visited,
                   root, name_variants, writes>>

\* The loop is over: Scope::new() and the IconStyle enum.
BeginEmit ==
    /\ pc = "resolve"
    /\ idx > Len(config)
    /\ root' = <<EnumItem>>
    /\ pc' = "emit"
    /\ UNCHANGED <<env, outFile, manifest_dir, config, config_dir, idx, icons, visited,
                   name_variants, err, writes>>

\* --------------------------------------------------------------- emitting
\* The items one turn of `for (name, variants) in icons` pushes: a constant
\* per variant, then the function of the icon.
GroupItems(name, variants) ==
    [i \in 1..Len(variants) |->
        ConstItem(ConstName(name, variants[i].info), variants[i].path)]
    \o <<FnItem(FnName(name),
                [i \in 1..Len(variants) |-> MatchVariant(name, variants[i].info)])>>

\* EmitGroup with the output file written after every group.
EmitGroupFlush ==
    /\ pc = "emit"
    /\ \E name \in DOMAIN icons \ visited :
          /\ root' = root \o GroupItems(name, icons[name])
          /\ name_variants' = Append(name_variants, NameVariant(name))
          /\ visited' = visited \cup {name}
          /\ outFile' = root'
    /\ UNCHANGED <<env, pc, manifest_dir, config, config_dir, idx, icons, err, writes>>

\* One turn of `for (name, variants) in icons`.  A HashMap yields its keys in
\* an order that differs from one process to the next (RandomState), so the
\* turn takes any key not yet yielded.
EmitGroup ==
    /\ pc = "emit"
    /\ \E name \in DOMAIN icons \ visited :
          /\ root' = root \o GroupItems(name, icons[name])
          /\ name_variants' = Append(name_variants, NameVariant(name))
          /\ visited' = visited \cup {name}
    /\ UNCHANGED <<env, outFile, pc, manifest_dir, config, config_dir, idx, icons, err,
                   writes>>

\* The source text the run writes: the scope with the function `icon` last.
FinalText == Append(root, FnItem(S_icon, name_variants))

\* root.new_fn("icon") and std::fs::write(OUT_DIR/icons.rs, root.to_string())
Finish ==
    /\ pc = "emit"
    /\ visited = DOMAIN icons
    /\ root' = FinalText
    /\ outFile' = FinalText
    /\ writes' = writes + 1
    /\ pc' = "done"
    /\ UNCHANGED <<env, manifest_dir, config, config_dir, idx, icons, visited,
                   name_variants, err>>

\* The build tool runs the script again, in the same environment.
Rerun ==
    /\ pc \in {"done", "panic"}
    /\ pc' = "start"
    /\ manifest_dir' = << >>
    /\ config' = << >>
    /\ config_dir' = NoDir
    /\ idx' = 1
    /\ icons' = EmptyMap
    /\ visited' = {}
    /\ root' = << >>
    /\ name_variants' = << >>
    /\ err' = NoErr
    /\ writes' = 0
    /\ UNCHANGED <<env, outFile>>

Next ==
    \/ Start
    \/ DocsLoadSource
    \/ DocsNoSource
    \/ DiscoverPop
    \/ DiscoverFail
    \/ DiscoverFound
    \/ LoadConfig
    \/ ResolveStep
    \/ ResolveFail
    \/ BeginEmit
    \/ EmitGroup
    \/ Finish
    \/ Rerun

Spec == Init /\ [][Next]_vars

\* The run is one sequential process: a step that can be taken is taken.
FairSpec == Spec /\ WF_vars(Next)

\* The discovery and configuration cases alone, for the termination claim.
EnvInit ==
    /\ InitEnv
    /\ outFile = Absent
    /\ pc = "start"
    /\ FreshLocals

EnvSpec == EnvInit /\ [][Next]_vars /\ WF_vars(Next)

\* ------------------------------------------- semantics of the emitted code
Min(S) == CHOOSE x \in S : \A y \in S : x <= y

ItemsOf(out, kind) == {i \in 1..Len(out) : out[i].kind = kind}

\* The emitted text compiles only if no constant and no function is defined
\* twice (rustc E0428).
Compiles(out) ==
    \A i, j \in ItemsOf(out, "const") \cup ItemsOf(out, "fn") :
        (i # j /\ out[i].kind = out[j].kind) => out[i].name # out[j].name

\* The arms of the function called fn_name.
ArmsOf(out, fn_name) ==
    LET hits == {i \in ItemsOf(out, "fn") : out[i].name = fn_name}
    IN out[Min(hits)].arms

Panics(msg) == [kind |-> "panic", msg |-> msg, const |-> << >>]

\* What the match expressions of the emitted icon(name, style, filled) select:
\* the first arm that matches wins, the last arm panics.
IconDispatch(out, name, style, filled) ==
    LET top == ArmsOf(out, S_icon)
        byName == {i \in 1..Len(top) : top[i].pat = name}
    IN IF byName = {} THEN Panics("NoSuchIcon")
       ELSE LET arms == ArmsOf(out, top[Min(byName)].target)
                byPair == {i \in 1..Len(arms) :
                              arms[i].style = style /\ arms[i].filled = filled}
            IN IF byPair = {} THEN Panics("NoSuchVariant")
               ELSE [kind |-> "const", msg |-> "", const |-> arms[Min(byPair)].target]

\* What a call of the emitted icon(name, style, filled) gives: no call exists
\* when the text does not compile; otherwise a panic, or the bytes of the
\* file the selected constant includes (named by the path of that file).
IconCall(out, name, style, filled) ==
    IF ~Compiles(out) THEN [kind |-> "compile_error", msg |-> "", file |-> << >>]
    ELSE LET d == IconDispatch(out, name, style, filled)
         IN IF d.kind = "panic" THEN [kind |-> "panic", msg |-> d.msg, file |-> << >>]
            ELSE LET c == Min({i \in ItemsOf(out, "const") : out[i].name = d.const})
                 IN [kind |-> "bytes", msg |-> "", file |-> out[c].path]

\* ------------------------------------------------------------------ claims
\* What the claims speak of, stated from their own words.

\* Whether the run read a manifest that exists and parses.
ManifestRead == config_dir \in manifestDirs /\ manifest.ok

\* The requests declared by the manifest the run read.
DeclaredSeq ==
    IF ManifestRead
    THEN [i \in 1..Len(manifest.entries) |-> Declared(manifest.entries[i])]
    ELSE << >>

DeclaredSet == {DeclaredSeq[i] : i \in 1..Len(DeclaredSeq)}

\* The bytes of the asset file a request resolves to.
ExpectedBytes(d) ==
    [kind |-> "bytes", msg |-> "", file |-> <<S_crate>> \o ExpectedPath(d)]

\* A name no manifest of the model declares, and the names to call icon with.
N_b == <<"b">>
QueryNames == Names \cup {N_b}

\* C1: after a run that completed on a manifest that parses and whose assets
\* all exist, icon(name, style, filled) returns, for every declared entry,
\* exactly the bytes of that entry's asset file.
C1_DeclaredReturnsAssetBytes ==
    pc = "done" =>
        \A i \in 1..Len(DeclaredSeq) :
            IconCall(outFile, DeclaredSeq[i].name, DeclaredSeq[i].style,
                     DeclaredSeq[i].filled) = ExpectedBytes(DeclaredSeq[i])

\* C2: in the output of a completed run the dispatch reaches only declared
\* combinations: a name that no entry declares ends in NoSuchIcon, a declared
\* name with an undeclared (style, filled) pair ends in NoSuchVariant.
C2_OnlyDeclaredReachable ==
    pc = "done" =>
        \A n \in QueryNames, s \in Styles, f \in BOOLEAN :
            [name |-> n, style |-> s, filled |-> f] \notin DeclaredSet =>
                IconDispatch(outFile, n, s, f) =
                    IF \E d \in DeclaredSet : d.name = n
                    THEN Panics("NoSuchVariant")
                    ELSE Panics("NoSuchIcon")

\* C2 witness: a completed run on a manifest that declares a variant of one
\* name and leaves another variant of it, and another name, undeclared.
C2_Witness ==
    /\ pc = "done"
    /\ Len(DeclaredSeq) = 2
    /\ \E d \in DeclaredSet : d.name = N_a /\ d.filled
    /\ [name |-> N_a, style |-> "Outlined", filled |-> FALSE] \notin DeclaredSet
    /\ \A d \in DeclaredSet : d.name # N_A

\* C3: an entry whose asset path icons/<name>/<prefix><style>.svg does not
\* exist ends the run with AssetNotFound carrying the entry's name and that
\* path, and the entry does not join the registry; every entry of the
\* registry carries its own path, which exists.
C3_MissingAssetAborts ==
    [][/\ (/\ pc = "resolve"
           /\ idx <= Len(config)
           /\ ExpectedPath(config[idx]) \notin assets)
          => /\ pc' = "panic"
             /\ err' = [kind |-> "AssetNotFound", name |-> config[idx].name,
                        path |-> ExpectedPath(config[idx])]
             /\ icons' = icons
       /\ \A k \in DOMAIN icons' : \A i \in 1..Len(icons'[k]) :
             /\ icons'[k][i].path = ExpectedPath(icons'[k][i].info)
             /\ icons'[k][i].path \in assets]_vars

\* C3 witness: the second entry of a manifest has no asset file; the run has
\* aborted on it with the first entry in the registry.
C3_Witness ==
    /\ pc = "panic"
    /\ err.kind = "AssetNotFound"
    /\ idx = 2
    /\ err.name = config[2].name
    /\ err.path \notin assets
    /\ DOMAIN icons = {config[1].name}

\* C4 as stated: a run completes only if the manifest directory it used
\* holds a manifest that parses.
C4_MissingManifestFatal ==
    (pc = "done" /\ config_dir # NoDir) => ManifestRead

\* C4 as amended: outside documentation builds a run gets past loading only
\* with a manifest that exists and parses; a documentation build gets past
\* loading with a manifest that exists only if it parses, and with an empty
\* list when SOURCE_DIR is unset or holds no manifest; a run that aborted
\* wrote nothing.
C4_FatalOutsideDocs ==
    /\ pc \in {"resolve", "emit", "done"} =>
          /\ ~docsrs => (ManifestRead /\ Len(config) = Len(manifest.entries))
          /\ (docsrs /\ config_dir \in manifestDirs) =>
                (manifest.ok /\ Len(config) = Len(manifest.entries))
          /\ (docsrs /\ config_dir \notin manifestDirs) => config = << >>
    /\ pc = "panic" => writes = 0
    /\ err.kind = "ManifestNotFound" => (~docsrs /\ config_dir \notin manifestDirs)
    /\ err.kind = "ManifestParseError" => ~manifest.ok

\* C4 witness: an ordinary build found the project directory, which holds no
\* manifest, and aborted.
C4_Witness ==
    /\ ~docsrs
    /\ pc = "panic"
    /\ err.kind = "ManifestNotFound"
    /\ config_dir \in cargoDirs

\* Whether two requests are given the same constant name by the scheme
\* ICON_<NAME>_<FILLED_><STYLE>: their uppercased names are equal and so are
\* style and filled, or one uppercased name is the other followed by _FILLED,
\* the shorter one filled, the longer one not, and the styles are equal.
FilledSuffix == <<"_","F","I","L","L","E","D">>
SchemeClash(t1, t2) ==
    /\ t1.style = t2.style
    /\ \/ to_uppercase(t1.name) = to_uppercase(t2.name) /\ t1.filled = t2.filled
       \/ /\ to_uppercase(t2.name) = to_uppercase(t1.name) \o FilledSuffix
          /\ t1.filled /\ ~t2.filled
       \/ /\ to_uppercase(t1.name) = to_uppercase(t2.name) \o FilledSuffix
          /\ t2.filled /\ ~t1.filled

\* C5 as stated: two distinct (name, style, filled) tuples of the manifest
\* never get the same constant name.
C5_ConstNameInjective ==
    \A i, j \in 1..Len(config) :
        config[i] # config[j] =>
            ConstName(config[i].name, config[i]) # ConstName(config[j].name, config[j])

\* C5 as amended: two distinct tuples of the manifest get different constant
\* names unless their names differ only in case (style and filled equal) or
\* one uppercased name is the other followed by _FILLED (the shorter filled,
\* the longer not, styles equal); so tuples with the same name never collide.
C5_ConstNameInjectiveAmended ==
    \A i, j \in 1..Len(config) :
        (config[i] # config[j] /\ ~SchemeClash(config[i], config[j])) =>
            ConstName(config[i].name, config[i]) # ConstName(config[j].name, config[j])

\* C5 witness: a loaded manifest with two variants of one name that differ
\* only in the filled flag.
C5_Witness ==
    /\ Len(config) = 2
    /\ config[1].name = config[2].name
    /\ config[1].style = config[2].style
    /\ config[1].filled # config[2].filled

\* C6: when two distinct (name, style, filled) combinations of the manifest
\* compute to the same constant name, the run does not complete.
C6_CollisionRejected ==
    (\E i, j \in 1..Len(config) :
        /\ config[i] # config[j]
        /\ ConstName(config[i].name, config[i]) = ConstName(config[j].name, config[j]))
    => pc # "done"

\* C7: a run on an unchanged manifest and asset set writes the text that the
\* run before it wrote.
C7_RerunWritesSameText ==
    [][(pc = "emit" /\ pc' = "done" /\ outFile # Absent) => outFile' = outFile]_vars

\* C8: no group of the registry holds two resolved assets with the same
\* style and the same filled flag.
C8_GroupPairsUnique ==
    \A k \in DOMAIN icons : \A i, j \in 1..Len(icons[k]) :
        i # j => \/ icons[k][i].info.style # icons[k][j].info.style
                 \/ icons[k][i].info.filled # icons[k][j].info.filled

\* The nearest directory on the upward chain from dir that holds the project
\* descriptor, dir itself included.
HasDescriptor(dir) == \E d \in Ancestors(dir) : d \in cargoDirs
Nearest(dir) ==
    CHOOSE d \in Ancestors(dir) \cap cargoDirs :
        \A e \in Ancestors(dir) \cap cargoDirs : Len(e) <= Len(d)

\* C9: discovery ends; it ends at the nearest directory of the upward chain
\* that holds the descriptor when there is one, and in a fatal error when
\* there is none.
C9_DiscoveryTerminates ==
    /\ [](pc = "load" => (HasDescriptor(outDir) /\ config_dir = Nearest(outDir)))
    /\ [](err.kind = "NoManifestDir" => ~HasDescriptor(outDir))
    /\ [](pc = "discover" => manifest_dir \in Ancestors(outDir))
    /\ (pc = "discover" ~> (pc = "load" \/ (pc = "panic" /\ err.kind = "NoManifestDir")))

\* C9 witness: discovery moved up from an output directory without a
\* descriptor and stopped at the nearer of two directories that hold one.
C9_Witness ==
    /\ pc = "load"
    /\ outDir \notin cargoDirs
    /\ Cardinality(cargoDirs) >= 2
    /\ Len(config_dir) > 0

\* The output text holds a constant for every entry and a function for every
\* name, besides the enum and the function icon.
HoldsAll(out, cfg) ==
    /\ Cardinality(ItemsOf(out, "const")) = Len(cfg)
    /\ Cardinality(ItemsOf(out, "fn")) = Cardinality({cfg[i].name : i \in 1..Len(cfg)}) + 1
    /\ \A i \in 1..Len(cfg) : \E c \in ItemsOf(out, "const") :
          out[c].path = <<S_crate>> \o ExpectedPath(cfg[i])

\* C10: the output file changes only in the step that ends a run, after every
\* entry was resolved and every item generated; a run writes once and does
\* nothing after it; a run that aborts leaves the file as it was.
C10_AllOrNothing ==
    [][/\ outFile' # outFile =>
             /\ pc = "emit" /\ pc' = "done"
             /\ idx > Len(config)
             /\ HoldsAll(outFile', config)
       /\ writes' # writes => (pc' = "start" \/ (writes = 0 /\ writes' = 1 /\ pc' = "done"))
       /\ pc' = "done" => writes' = 1
       /\ pc' = "panic" => (outFile' = outFile /\ writes' = 0)
       /\ pc = "done" => pc' = "start"]_vars

\* C10 witness: a run wrote the output for a manifest of two entries.
C10_Witness ==
    /\ pc = "done"
    /\ writes = 1
    /\ Len(config) = 2
    /\ HoldsAll(outFile, config)

====
